---- MODULE Spec2Model ----
(***************************************************************************)
(* Model of the WeatherDataAnalyst ingestion pipeline:                     *)
(*   - clean_hourly_data        (weatherDataCollector.py, 109-156)         *)
(*   - fetch_weather_open_meteo (weatherDataCollector.py, 29-74)           *)
(*   - main / fetch_clean_and_save, one refresh cycle (159-216), run as a  *)
(*     subprocess by WeatherDashboard.on_download_data (dashboard.py)      *)
(*                                                                         *)
(*   - calculate_comfort_index, calculate_city_comfort_index and the       *)
(*     analysis part of main (weatherDataAnalyst.py)                       *)
(*                                                                         *)
(*   - the download handling of WeatherDashboard (dashboard.py)            *)
(*                                                                         *)
(* The specifications share the variables:                                 *)
(*   SpecClean  the cleaner applied to bounded raw payloads                *)
(*   SpecFetch  one call of the fetcher, one HTTP request per step         *)
(*   Spec       one refresh cycle over the configured cities               *)
(*   SpecScore  calculate_comfort_index on sampled observations            *)
(*   SpecRank   the analysis of a loaded aggregate                         *)
(*   SpecIndex  SpecScore or SpecRank                                      *)
(*   SpecTerminates  a cycle or a fetch under fair scheduling              *)
(*   SpecDash   the start-up download and the clicks on the button         *)
(***************************************************************************)
EXTENDS Integers, Sequences, FiniteSets, TLC

VARIABLES
    \* ---- clean_hourly_data on one payload
    cdata,          \* the argument `data`
    cout,           \* what the call produced (NotRun before the call)
    \* ---- one call of fetch_weather_open_meteo
    fdays,          \* the argument `days`
    fpc,            \* position of the call
    fretries,       \* Retry.total still left in the running session.get
    fnreq,          \* HTTP requests sent so far by this call
    flast,          \* outcome of the latest HTTP request
    fout,           \* what the call produced (return value or exception)
    \* ---- one refresh cycle (main) under the dashboard
    unit,           \* per city: state of its fetch_clean_and_save future
    mainpc,         \* position of main
    taken,          \* futures already yielded by as_completed
    cleaned_data,   \* main's list cleaned_data
    all_data,       \* main's list all_data
    stdout,         \* lines printed by main's except branch
    city_file,      \* per path: weather_data/open_meteo_<safe_city>.json
    raw_file,       \* weather_data/open_meteo_all_capitals.json
    cleaned_file,   \* weather_data/open_meteo_all_capitals_CLEANED.json
    dash,           \* what on_download_data showed for this run
    \* ---- one call of calculate_comfort_index
    sargs,          \* its five arguments
    sctx,           \* latitude of the city and month of the observation
    slocals,        \* the five factor scores at the return
    sres,           \* what the call produced
    \* ---- the analysis of a loaded aggregate (main of weatherDataAnalyst.py)
    rin,            \* loaded_all, the aggregate read from the file
    rres,           \* what the analysis produced
    \* ---- the dashboard's download handling (dashboard.py)
    after_500,      \* the callback scheduled by root.after(500, ...)
    download_btn,   \* state of the download button
    tkmain,         \* what the Tk main thread is doing
    thread,         \* the thread started by auto_download_data
    clicks,         \* clicks on the button handled so far
    boxes           \* message boxes shown so far

cleanVars == <<cdata, cout>>
fetchVars == <<fdays, fpc, fretries, fnreq, flast, fout>>
cycleVars == <<unit, mainpc, taken, cleaned_data, all_data, stdout,
               city_file, raw_file, cleaned_file, dash>>
scoreVars == <<sargs, sctx, slocals, sres>>
rankVars == <<rin, rres>>
uiVars == <<after_500, download_btn, tkmain, thread, clicks, boxes>>
vars == <<cdata, cout, fdays, fpc, fretries, fnreq, flast, fout,
          unit, mainpc, taken, cleaned_data, all_data, stdout,
          city_file, raw_file, cleaned_file, dash,
          sargs, sctx, slocals, sres, rin, rres,
          after_500, download_btn, tkmain, thread, clicks, boxes>>

(***************************************************************************)
(* Bounds of the model.                                                    *)
(***************************************************************************)
\* longest hourly sequence of a payload given to the cleaner
MaxLen == 3
\* number of configured cities modelled (CAPITALS has 15)
NumCities == 3

(***************************************************************************)
(* JSON values.  A JSON scalar is a record with a kind and a value; None   *)
(* is the kind "null".  Python's float() turns an int into a float, keeps  *)
(* a float and raises ValueError on a non-numeric string.                  *)
(***************************************************************************)
Null == [k |-> "null", v |-> 0]
IntV(n) == [k |-> "int", v |-> n]
FltV(n) == [k |-> "float", v |-> n]
StrV(n) == [k |-> "str", v |-> n]

IsNone(x) == x.k = "null"
IsNumber(x) == x.k \in {"int", "float"}
float(x) == [k |-> "float", v |-> x.v]

\* dict.get(key, default) on a dict modelled as a function on its keys
Get(d, key, default) == IF key \in DOMAIN d THEN d[key] ELSE default

Min2(a, b) == IF a <= b THEN a ELSE b

(***************************************************************************)
(* clean_hourly_data                                                       *)
(***************************************************************************)
HourlyKeys == {"time", "temperature_2m", "relative_humidity_2m",
               "precipitation", "wind_speed_10m", "cloud_cover"}

\* `data.get("hourly", {})` followed by the six `hourly.get(key, [])`
HourlyOf(data) ==
    LET hourly == Get(data, "hourly", [key \in {} |-> <<>>])
    IN  [key \in HourlyKeys |-> Get(hourly, key, <<>>)]

\* min(len(times), len(temps), len(hums), len(precip), len(wind), len(cloud))
min_len(h) ==
    Min2(Len(h["time"]),
    Min2(Len(h["temperature_2m"]),
    Min2(Len(h["relative_humidity_2m"]),
    Min2(Len(h["precipitation"]),
    Min2(Len(h["wind_speed_10m"]), Len(h["cloud_cover"]))))))

\* the test `temp is None or hum is None` that skips an hour
SkipRow(temp, hum) == IsNone(temp) \/ IsNone(hum)

\* the dict appended for one kept hour, its humidity guarded by the
\* precipitation's None test
CleanedRowHumByPrecip(h, i) ==
    [time                 |-> h["time"][i],
     temperature_2m       |-> float(h["temperature_2m"][i]),
     relative_humidity_2m |-> IF IsNone(h["precipitation"][i]) THEN Null
                              ELSE float(h["relative_humidity_2m"][i]),
     precipitation        |-> IF IsNone(h["precipitation"][i]) THEN Null
                              ELSE float(h["precipitation"][i]),
     wind_speed_10m       |-> IF IsNone(h["wind_speed_10m"][i]) THEN Null
                              ELSE float(h["wind_speed_10m"][i]),
     cloud_cover          |-> IF IsNone(h["cloud_cover"][i]) THEN Null
                              ELSE float(h["cloud_cover"][i])]

\* the dict appended for one kept hour, a missing optional value set to 0.0
CleanedRowZeroDefault(h, i) ==
    [time                 |-> h["time"][i],
     temperature_2m       |-> float(h["temperature_2m"][i]),
     relative_humidity_2m |-> float(h["relative_humidity_2m"][i]),
     precipitation        |-> IF IsNone(h["precipitation"][i]) THEN FltV(0)
                              ELSE float(h["precipitation"][i]),
     wind_speed_10m       |-> IF IsNone(h["wind_speed_10m"][i]) THEN FltV(0)
                              ELSE float(h["wind_speed_10m"][i]),
     cloud_cover          |-> IF IsNone(h["cloud_cover"][i]) THEN FltV(0)
                              ELSE float(h["cloud_cover"][i])]

\* the dict appended for one kept hour
CleanedRow(h, i) ==
    [time                 |-> h["time"][i],
     temperature_2m       |-> float(h["temperature_2m"][i]),
     relative_humidity_2m |-> float(h["relative_humidity_2m"][i]),
     precipitation        |-> IF IsNone(h["precipitation"][i]) THEN Null
                              ELSE float(h["precipitation"][i]),
     wind_speed_10m       |-> IF IsNone(h["wind_speed_10m"][i]) THEN Null
                              ELSE float(h["wind_speed_10m"][i]),
     cloud_cover          |-> IF IsNone(h["cloud_cover"][i]) THEN Null
                              ELSE float(h["cloud_cover"][i])]

\* float() raises on a value of the hour that is neither None nor a number
RowRaises(h, i) ==
    \E key \in HourlyKeys \ {"time"} :
        ~IsNone(h[key][i]) /\ ~IsNumber(h[key][i])

Returned(value) == [st |-> "returned", value |-> value, exc |-> "none"]
Raised(exc) == [st |-> "raised", value |-> <<>>, exc |-> exc]
NotRun == [st |-> "notrun", value |-> <<>>, exc |-> "none"]

\* the loop `for i in range(min_len)`, from index i (1-based) with `rows` so far
RECURSIVE CleanLoop(_, _, _, _)
CleanLoop(h, n, i, rows) ==
    IF i > n THEN Returned(rows)
    ELSE IF SkipRow(h["temperature_2m"][i], h["relative_humidity_2m"][i])
         THEN CleanLoop(h, n, i + 1, rows)
    ELSE IF RowRaises(h, i) THEN Raised("ValueError")
    ELSE CleanLoop(h, n, i + 1, Append(rows, CleanedRow(h, i)))

\* the loop written as `for i in range(1, min_len)`
clean_hourly_data_from_1(data) ==
    LET h == HourlyOf(data)
    IN  CleanLoop(h, min_len(h), 2, <<>>)

clean_hourly_data(data) ==
    LET h == HourlyOf(data)
    IN  CleanLoop(h, min_len(h), 1, <<>>)

(***************************************************************************)
(* Raw payloads.                                                           *)
(***************************************************************************)
SeqsUpTo(S, n) == UNION {[1..m -> S] : m \in 0..n}
\* sequences of a length in lo..hi whose elements are all the same value of S
UniformSeqs(S, lo, hi) == UNION {{[i \in 1..m |-> x] : x \in S} : m \in lo..hi}
\* the hour stamps the API sends: consecutive hours of one forecast window
TimesOf(win, m) == [i \in 1..m |-> StrV(10 * win + i)]

\* the raw payload with the given hourly sequences
RawPayload(ti, te, hu, pr, ws, cc) ==
    [hourly |->
        [time                 |-> ti,
         temperature_2m       |-> te,
         relative_humidity_2m |-> hu,
         precipitation        |-> pr,
         wind_speed_10m       |-> ws,
         cloud_cover          |-> cc]]

(***************************************************************************)
(* What the API can answer.  A response has a status and a body; a         *)
(* transport failure (connection error, read timeout) has status 0.  A     *)
(* body is JSON text of a document or is not JSON at all.                  *)
(***************************************************************************)
\* a full window: two hours, every value present
FullDoc(win) ==
    RawPayload(TimesOf(win, 2),
               <<FltV(20), FltV(21)>>, <<IntV(50), IntV(55)>>,
               <<IntV(0), FltV(1)>>, <<FltV(7), FltV(9)>>,
               <<IntV(90), IntV(10)>>)
\* ragged and with gaps: the first hour lacks the temperature, the kept
\* second hour lacks the precipitation, precipitation has two hours only
GapsDoc(win) ==
    RawPayload(TimesOf(win, 3),
               <<Null, FltV(20), FltV(21)>>, <<IntV(50), IntV(55), Null>>,
               <<Null, Null>>, <<FltV(7), FltV(7), FltV(7)>>,
               <<IntV(90), IntV(90), IntV(90)>>)
\* a temperature that float() cannot convert
BadDoc(win) ==
    RawPayload(TimesOf(win, 1),
               <<StrV(0)>>, <<IntV(50)>>, <<IntV(0)>>, <<FltV(7)>>,
               <<IntV(90)>>)
ApiDocs(win) == {FullDoc(win), GapsDoc(win), BadDoc(win)}
\* the body the API sends with an error status
ErrorDoc == [error |-> TRUE]

NoBody == [json |-> FALSE, doc |-> ErrorDoc]
JsonBody(doc) == [json |-> TRUE, doc |-> doc]
NoResponse == [status |-> -1, body |-> NoBody]
Transport == [status |-> 0, body |-> NoBody]

\* Retry(total=3, ...)
RetryTotal == 3
\* Retry(..., status_forcelist=[429, 500, 502, 503, 504])
status_forcelist == {429, 500, 502, 503, 504}

Responses(win) ==
    {Transport}
    \cup {[status |-> st, body |-> JsonBody(ErrorDoc)] :
              st \in status_forcelist \cup {404}}
    \cup {[status |-> 200, body |-> b] :
              b \in {JsonBody(d) : d \in ApiDocs(win)} \cup {NoBody}}

\* urllib3 sends the request again: transport failure or forcelist status
IsRetryable(r) == r = Transport \/ r.status \in status_forcelist
\* the exception session.get raises when the retries are used up
ExhaustedError(r) == IF r = Transport THEN "ConnectionError" ELSE "RetryError"
\* response.raise_for_status() raises HTTPError
raise_for_status_never(r) == FALSE
raise_for_status(r) == r.status >= 400 /\ r.status < 600

\* every variable of the fetcher and of the refresh cycle, at rest
FetchIdle ==
    /\ fdays = 0 /\ fpc = "idle" /\ fretries = 0 /\ fnreq = 0
    /\ flast = NoResponse /\ fout = NotRun
CycleIdle ==
    /\ unit = <<>> /\ mainpc = "idle" /\ taken = {}
    /\ cleaned_data = <<>> /\ all_data = <<>> /\ stdout = <<>>
    /\ city_file = <<>> /\ raw_file = "none" /\ cleaned_file = "none"
    /\ dash = "idle"
CleanIdle == cdata = <<>> /\ cout = NotRun
ScoreIdle == sargs = <<>> /\ sctx = <<>> /\ slocals = <<>> /\ sres = NotRun
RankIdle == rin = <<>> /\ rres = NotRun
UiIdle ==
    /\ after_500 = "none" /\ download_btn = "none" /\ tkmain = <<>>
    /\ thread = <<>> /\ clicks = 0 /\ boxes = <<>>

(***************************************************************************)
(* SpecClean: the cleaner on every payload within the bounds.              *)
(***************************************************************************)
InitClean ==
    /\ \E m \in 0..MaxLen,
          te \in SeqsUpTo({Null, FltV(20)}, MaxLen),
          hu \in SeqsUpTo({Null, IntV(50)}, MaxLen),
          pr \in UniformSeqs({Null, IntV(0)}, 0, MaxLen),
          ws \in UniformSeqs({Null, FltV(7)}, MaxLen - 1, MaxLen),
          cc \in UniformSeqs({Null, IntV(90)}, MaxLen - 1, MaxLen) :
            cdata = RawPayload(TimesOf(1, m), te, hu, pr, ws, cc)
    /\ cout = NotRun
    /\ FetchIdle /\ CycleIdle /\ ScoreIdle /\ RankIdle /\ UiIdle

\* rows = clean_hourly_data(data)
Clean ==
    /\ cout = NotRun
    /\ cout' = clean_hourly_data(cdata)
    /\ UNCHANGED <<cdata, fetchVars, cycleVars, scoreVars, rankVars, uiVars>>

NextClean == Clean

SpecClean == InitClean /\ [][NextClean]_vars

(***************************************************************************)
(* SpecFetch: one call of fetch_weather_open_meteo, one request per step.  *)
(***************************************************************************)
InitFetch ==
    /\ fdays \in 0..17
    /\ fpc = "get1"
    /\ fretries = RetryTotal
    /\ fnreq = 0
    /\ flast = NoResponse
    /\ fout = NotRun
    /\ CleanIdle /\ CycleIdle /\ ScoreIdle /\ RankIdle /\ UiIdle

\* one HTTP request of the running session.get, answered by r
Request(r) ==
    /\ fpc \in {"get1", "get2"}
    /\ fnreq' = fnreq + 1
    /\ flast' = r
    /\ UNCHANGED <<fdays, cleanVars, cycleVars, scoreVars, rankVars, uiVars>>

\* the running session.get (or what follows it in the try) raised exc: the
\* first time the handler sleeps 3 s and calls session.get again with a
\* fresh Retry; the second time the exception leaves the function
CallFailed(exc) ==
    IF fpc = "get1"
    THEN /\ fpc' = "get2"
         /\ fretries' = RetryTotal
         /\ fout' = fout
    ELSE /\ fpc' = "done"
         /\ fretries' = fretries
         /\ fout' = Raised(exc)

\* urllib3 retries inside session.get
HttpRetried ==
    \E r \in Responses(1) :
        /\ Request(r)
        /\ IsRetryable(r)
        /\ fretries > 0
        /\ fretries' = fretries - 1
        /\ UNCHANGED <<fpc, fout>>

\* urllib3 gives up: MaxRetryError, surfaced by requests
HttpExhausted ==
    \E r \in Responses(1) :
        /\ Request(r)
        /\ IsRetryable(r)
        /\ fretries = 0
        /\ CallFailed(ExhaustedError(r))

\* a response comes back and raise_for_status() raises
HttpErrorStatus ==
    \E r \in Responses(1) :
        /\ Request(r)
        /\ ~IsRetryable(r)
        /\ raise_for_status(r)
        /\ CallFailed("HTTPError")

\* a response comes back and response.json() raises
HttpBadBody ==
    \E r \in Responses(1) :
        /\ Request(r)
        /\ ~IsRetryable(r)
        /\ ~raise_for_status(r)
        /\ ~r.body.json
        /\ CallFailed("JSONDecodeError")

\* return response.json()
HttpOk ==
    \E r \in Responses(1) :
        /\ Request(r)
        /\ ~IsRetryable(r)
        /\ ~raise_for_status(r)
        /\ r.body.json
        /\ fpc' = "done"
        /\ fout' = Returned(r.body.doc)
        /\ UNCHANGED fretries

NextFetch ==
    \/ HttpRetried
    \/ HttpExhausted
    \/ HttpErrorStatus
    \/ HttpBadBody
    \/ HttpOk

SpecFetch == InitFetch /\ [][NextFetch]_vars

(***************************************************************************)
(* The refresh cycle: main of weatherDataCollector.py, started as a        *)
(* subprocess by WeatherDashboard.on_download_data.                        *)
(***************************************************************************)
\* CAPITALS, in list order (the first NumCities entries)
CAPITALS == 1..NumCities

\* every city given the file name of the first one
safe_city_shared(c) == 1
\* safe_city = city.lower().replace(" ", "_"): the 15 names of CAPITALS
\* stay distinct, so a path is named by its city
safe_city(c) == c
\* the per-city output paths
Paths == {safe_city(c) : c \in CAPITALS}

\* weather_json["metadata"] of a city
Metadata(c) == [city |-> c]
\* weather_json["metadata"] = {...}: the response document with that key set
WithMetadata(doc, c) ==
    [key \in DOMAIN doc \cup {"metadata"} |->
        IF key = "metadata" THEN Metadata(c) ELSE doc[key]]

\* the content of a file: whole, or cut short after open(..., "w")
Full(data) == [st |-> "full", data |-> data]
Truncated == [st |-> "partial", data |-> <<>>]

\* what fetch_weather_open_meteo can hand to its caller (see SpecFetch)
FetchErrors == {"ConnectionError", "RetryError", "HTTPError", "JSONDecodeError"}
\* the cycle draws two of the four errors: retries used up, error status
FetchOutcomes ==
    {Returned(d) : d \in ApiDocs(1)}
    \cup {Raised(e) : e \in {"RetryError", "HTTPError"}}

\* the classes `except Exception` catches
CatchesNothing(exc) == FALSE
Catches(exc) == exc \in FetchErrors \cup {"ValueError"}

\* `cleaned_data = []` and `all_data = []`
NewListFromFile(file) == file.data
NewList(file) == <<>>

\* the first element of the pair fetch_clean_and_save returns
CleanedEntry(raw, rows) ==
    [metadata |-> raw["metadata"], cleaned_hourly_rows |-> rows]

\* the line printed for a failed future: f"Błąd pobierania miasta: {e}"
FailureLine(exc) == [text |-> "Blad pobierania miasta", exc |-> exc]

\* the files a complete earlier cycle (forecast window 0) left behind
OldDocs == {FullDoc(0), GapsDoc(0)}
OldRaw(doc, c) == WithMetadata(doc, c)
OldRawFile(doc) == Full([c \in CAPITALS |-> OldRaw(doc, c)])
OldCleanedFile(doc) ==
    Full([c \in CAPITALS |->
            CleanedEntry(OldRaw(doc, c), clean_hourly_data(OldRaw(doc, c)).value)])

Init ==
    /\ \E doc \in OldDocs :
        /\ city_file = [p \in Paths |->
                           Full(OldRaw(doc, CHOOSE c \in CAPITALS : safe_city(c) = p))]
        /\ raw_file = OldRawFile(doc)
        /\ cleaned_file = OldCleanedFile(doc)
    /\ unit = [c \in CAPITALS |-> [pc |-> "pending", raw |-> ErrorDoc, out |-> NotRun]]
    /\ mainpc = "submit"
    /\ taken = {}
    /\ cleaned_data = <<>>
    /\ all_data = <<>>
    /\ stdout = <<>>
    /\ dash = "running"
    /\ CleanIdle /\ FetchIdle /\ ScoreIdle /\ RankIdle /\ UiIdle

\* the collector process has not been killed
Alive == mainpc # "killed"

\* lines 196-199: the two lists, then one future per city; max_workers=15
\* is not below len(CAPITALS), so every unit starts at once
Submit ==
    /\ mainpc = "submit"
    /\ cleaned_data' = NewList(cleaned_file)
    /\ all_data' = NewList(raw_file)
    /\ unit' = [c \in CAPITALS |-> [unit[c] EXCEPT !.pc = "fetch"]]
    /\ mainpc' = "collect"
    /\ UNCHANGED <<taken, stdout, city_file, raw_file, cleaned_file, dash,
                   cleanVars, fetchVars,
                   scoreVars, rankVars, uiVars>>

\* fetch_clean_and_save: weather_json = fetch_weather_open_meteo(...) and
\* weather_json["metadata"] = {...}
UnitFetch(c) ==
    /\ Alive
    /\ unit[c].pc = "fetch"
    /\ \E o \in FetchOutcomes :
        unit' = [unit EXCEPT ![c] =
                    IF o.st = "returned"
                    THEN [pc |-> "save", raw |-> WithMetadata(o.value, c),
                          out |-> NotRun]
                    ELSE [pc |-> "done", raw |-> @.raw, out |-> o]]
    /\ UNCHANGED <<mainpc, taken, cleaned_data, all_data, stdout, city_file,
                   raw_file, cleaned_file, dash, cleanVars, fetchVars,
                   scoreVars, rankVars, uiVars>>

\* save_json(weather_json, file_path): path.open("w") empties the file
UnitOpen(c) ==
    /\ Alive
    /\ unit[c].pc = "save"
    /\ city_file' = [city_file EXCEPT ![safe_city(c)] = Truncated]
    /\ unit' = [unit EXCEPT ![c].pc = "dump"]
    /\ UNCHANGED <<mainpc, taken, cleaned_data, all_data, stdout,
                   raw_file, cleaned_file, dash, cleanVars, fetchVars,
                   scoreVars, rankVars, uiVars>>

\* save_json(weather_json, file_path): json.dump and close
UnitDump(c) ==
    /\ Alive
    /\ unit[c].pc = "dump"
    /\ city_file' = [city_file EXCEPT ![safe_city(c)] = Full(unit[c].raw)]
    /\ unit' = [unit EXCEPT ![c].pc = "clean"]
    /\ UNCHANGED <<mainpc, taken, cleaned_data, all_data, stdout,
                   raw_file, cleaned_file, dash, cleanVars, fetchVars,
                   scoreVars, rankVars, uiVars>>

\* cleaned_rows = clean_hourly_data(weather_json) and the return
UnitClean(c) ==
    /\ Alive
    /\ unit[c].pc = "clean"
    /\ LET r == clean_hourly_data(unit[c].raw)
       IN  unit' = [unit EXCEPT ![c] =
                [pc |-> "done", raw |-> @.raw,
                 out |-> IF r.st = "returned"
                         THEN Returned([cleaned |-> CleanedEntry(@.raw, r.value),
                                        raw |-> @.raw])
                         ELSE r]]
    /\ UNCHANGED <<mainpc, taken, cleaned_data, all_data, stdout, city_file,
                   raw_file, cleaned_file, dash, cleanVars, fetchVars,
                   scoreVars, rankVars, uiVars>>

\* the loop taken to end as soon as one future has been yielded
LoopEndsAtFirst(t) == t # {}
\* as_completed(futures) is exhausted once every future has been yielded
LoopEnds(t) == t = CAPITALS

\* one turn of `for future in as_completed(futures)`: a finished future not
\* yet yielded; after the last one the loop and the with block end
Collect(c) ==
    /\ mainpc = "collect"
    /\ c \notin taken
    /\ unit[c].pc = "done"
    /\ taken' = taken \cup {c}
    /\ IF unit[c].out.st = "returned"
       THEN /\ cleaned_data' = Append(cleaned_data, unit[c].out.value.cleaned)
            /\ all_data' = Append(all_data, unit[c].out.value.raw)
            /\ stdout' = stdout
            /\ mainpc' = IF LoopEnds(taken') THEN "save_raw" ELSE "collect"
       ELSE IF Catches(unit[c].out.exc)
       THEN /\ stdout' = Append(stdout, FailureLine(unit[c].out.exc))
            /\ mainpc' = IF LoopEnds(taken') THEN "save_raw" ELSE "collect"
            /\ UNCHANGED <<cleaned_data, all_data>>
       ELSE /\ mainpc' = "raised"
            /\ UNCHANGED <<cleaned_data, all_data, stdout>>
    /\ UNCHANGED <<unit, city_file, raw_file, cleaned_file, dash,
                   cleanVars, fetchVars,
                   scoreVars, rankVars, uiVars>>

\* save_json({"capitals_weather": all_data}, ...): open
OpenRaw ==
    /\ mainpc = "save_raw"
    /\ raw_file' = Truncated
    /\ mainpc' = "dump_raw"
    /\ UNCHANGED <<unit, taken, cleaned_data, all_data, stdout, city_file,
                   cleaned_file, dash, cleanVars, fetchVars,
                   scoreVars, rankVars, uiVars>>

\* save_json({"capitals_weather": all_data}, ...): json.dump and close
DumpRaw ==
    /\ mainpc = "dump_raw"
    /\ raw_file' = Full(all_data)
    /\ mainpc' = "save_cleaned"
    /\ UNCHANGED <<unit, taken, cleaned_data, all_data, stdout, city_file,
                   cleaned_file, dash, cleanVars, fetchVars,
                   scoreVars, rankVars, uiVars>>

\* save_json({"capitals_weather_cleaned": cleaned_data}, ...): open
OpenCleaned ==
    /\ mainpc = "save_cleaned"
    /\ cleaned_file' = Truncated
    /\ mainpc' = "dump_cleaned"
    /\ UNCHANGED <<unit, taken, cleaned_data, all_data, stdout, city_file,
                   raw_file, dash, cleanVars, fetchVars,
                   scoreVars, rankVars, uiVars>>

\* save_json({"capitals_weather_cleaned": cleaned_data}, ...): json.dump,
\* close, and main returns
DumpCleaned ==
    /\ mainpc = "dump_cleaned"
    /\ cleaned_file' = Full(cleaned_data)
    /\ mainpc' = "done"
    /\ UNCHANGED <<unit, taken, cleaned_data, all_data, stdout, city_file,
                   raw_file, dash, cleanVars, fetchVars,
                   scoreVars, rankVars, uiVars>>

\* on_download_data: subprocess.run returns; returncode 0 shows the success
\* box, anything else the error box
DashReturn ==
    /\ dash = "running"
    /\ mainpc \in {"done", "raised"}
    /\ dash' = IF mainpc = "done" THEN "success" ELSE "error"
    /\ UNCHANGED <<unit, mainpc, taken, cleaned_data, all_data, stdout,
                   city_file, raw_file, cleaned_file, cleanVars, fetchVars,
                   scoreVars, rankVars, uiVars>>

\* on_download_data: timeout=120 runs out; subprocess.run kills the
\* collector, with all its threads, and raises TimeoutExpired
DashTimeout ==
    /\ dash = "running"
    /\ mainpc \notin {"done", "raised", "killed"}
    /\ mainpc' = "killed"
    /\ dash' = "timeout"
    /\ UNCHANGED <<unit, taken, cleaned_data, all_data, stdout,
                   city_file, raw_file, cleaned_file, cleanVars, fetchVars,
                   scoreVars, rankVars, uiVars>>

Next ==
    \/ Submit
    \/ \E c \in CAPITALS : UnitFetch(c)
    \/ \E c \in CAPITALS : UnitOpen(c)
    \/ \E c \in CAPITALS : UnitDump(c)
    \/ \E c \in CAPITALS : UnitClean(c)
    \/ \E c \in CAPITALS : Collect(c)
    \/ OpenRaw
    \/ DumpRaw
    \/ OpenCleaned
    \/ DumpCleaned
    \/ DashReturn
    \/ DashTimeout

Spec == Init /\ [][Next]_vars

(***************************************************************************)
(* SpecTerminates: a refresh cycle that is not cut off by the dashboard's  *)
(* timeout, or one call of the fetcher, under fair scheduling: every HTTP  *)
(* request is answered or times out, and every thread that can take a step *)
(* eventually takes one.                                                   *)
(***************************************************************************)
\* the files of the earlier cycle play no part: one set of them is drawn
InitTerminates == (Init /\ raw_file = OldRawFile(FullDoc(0))) \/ InitFetch

NextInTime ==
    \/ Submit
    \/ \E c \in CAPITALS : UnitFetch(c)
    \/ \E c \in CAPITALS : UnitOpen(c)
    \/ \E c \in CAPITALS : UnitDump(c)
    \/ \E c \in CAPITALS : UnitClean(c)
    \/ \E c \in CAPITALS : Collect(c)
    \/ OpenRaw
    \/ DumpRaw
    \/ OpenCleaned
    \/ DumpCleaned
    \/ DashReturn

NextTerminates ==
    \/ mainpc # "idle" /\ NextInTime
    \/ fpc # "idle" /\ NextFetch

SpecTerminates ==
    InitTerminates /\ [][NextTerminates]_vars /\ WF_vars(NextTerminates)

(***************************************************************************)
(* calculate_comfort_index (weatherDataAnalyst.py).  A measured number is  *)
(* held in tenths of its unit (degrees C, %, km/h, mm), so that the        *)
(* readings between two whole thresholds exist; T(n) is n units.           *)
(***************************************************************************)
T(n) == 10 * n

\* the temperature branch with the lower 15-point band starting at 10
temp_score_cold(t) ==
    IF T(18) <= t /\ t <= T(24) THEN 25
    ELSE IF (T(10) <= t /\ t < T(18)) \/ (T(24) < t /\ t <= T(27)) THEN 15
    ELSE IF (T(10) <= t /\ t < T(15)) \/ (T(27) < t /\ t <= T(30)) THEN 5
    ELSE 0

\* the temperature branch awarding 35 points in the ideal band
temp_score_35(t) ==
    IF T(18) <= t /\ t <= T(24) THEN 35
    ELSE IF (T(15) <= t /\ t < T(18)) \/ (T(24) < t /\ t <= T(27)) THEN 15
    ELSE IF (T(10) <= t /\ t < T(15)) \/ (T(27) < t /\ t <= T(30)) THEN 5
    ELSE 0

\* temp_score: 18-24 ideal, then 15-18 / 24-27, then 10-15 / 27-30
temp_score(t) ==
    IF T(18) <= t /\ t <= T(24) THEN 25
    ELSE IF (T(15) <= t /\ t < T(18)) \/ (T(24) < t /\ t <= T(27)) THEN 15
    ELSE IF (T(10) <= t /\ t < T(15)) \/ (T(27) < t /\ t <= T(30)) THEN 5
    ELSE 0

\* the humidity branch with the upper 5-point band reaching 90
humidity_score_wide(h) ==
    IF T(40) <= h /\ h <= T(60) THEN 25
    ELSE IF (T(30) <= h /\ h < T(40)) \/ (T(60) < h /\ h <= T(70)) THEN 15
    ELSE IF (T(20) <= h /\ h < T(30)) \/ (T(70) < h /\ h <= T(90)) THEN 5
    ELSE 0

\* humidity_score: 40-60 ideal, then 30-40 / 60-70, then 20-30 / 70-80
humidity_score(h) ==
    IF T(40) <= h /\ h <= T(60) THEN 25
    ELSE IF (T(30) <= h /\ h < T(40)) \/ (T(60) < h /\ h <= T(70)) THEN 15
    ELSE IF (T(20) <= h /\ h < T(30)) \/ (T(70) < h /\ h <= T(80)) THEN 5
    ELSE 0

\* wind_score: the calmer the better
wind_score(w) ==
    IF w <= T(10) THEN 20
    ELSE IF w <= T(15) THEN 10
    ELSE 0

\* precip_score: `precipitation == 0 or precipitation is None`, then `< 1`
precip_score(p) ==
    IF IsNone(p) THEN 15
    ELSE IF p.v = 0 THEN 15
    ELSE IF p.v < T(1) THEN 8
    ELSE 0

\* cloud_score: the clearer the better
cloud_score(c) ==
    IF c <= T(30) THEN 15
    ELSE IF c <= T(60) THEN 8
    ELSE 0

\* the locals of calculate_comfort_index at its return statement
ComfortLocals(temperature, humidity, wind_speed, precipitation, cloud_cover) ==
    LET ts == temp_score(temperature.v)
        hs == humidity_score(humidity.v)
        ws == wind_score(wind_speed.v)
        ps == precip_score(precipitation)
        cs == cloud_score(cloud_cover.v)
    IN  [temp_score |-> ts, humidity_score |-> hs, wind_score |-> ws,
         precip_score |-> ps, cloud_score |-> cs,
         score |-> ts + hs + ws + ps + cs]

\* an ordering comparison of None (or of a string) with a number raises
\* TypeError; precipitation alone is tested for None before it is compared
ComfortRaises(temperature, humidity, wind_speed, precipitation, cloud_cover) ==
    \/ ~IsNumber(temperature)
    \/ ~IsNumber(humidity)
    \/ ~IsNumber(wind_speed)
    \/ ~IsNumber(precipitation) /\ ~IsNone(precipitation)
    \/ ~IsNumber(cloud_cover)

calculate_comfort_index(temperature, humidity, wind_speed, precipitation, cloud_cover) ==
    IF ComfortRaises(temperature, humidity, wind_speed, precipitation,
                     cloud_cover)
    THEN Raised("TypeError")
    ELSE Returned(ComfortLocals(temperature, humidity, wind_speed,
                                precipitation, cloud_cover).score)

(***************************************************************************)
(* SpecScore: calculate_comfort_index on readings around every threshold,  *)
(* for a city at some latitude in some month.  The function takes neither  *)
(* the latitude nor the month.                                             *)
(***************************************************************************)
Temps == {T(2), T(10), T(15) - 1, T(15), T(18), T(22), T(24), T(24) + 1,
          T(27), T(30), T(30) + 1}
Hums == {T(20) - 1, T(20), T(30), T(40), T(50), T(60), T(70), T(80),
         T(80) + 1}
Winds == {0, T(10), T(10) + 1, T(15), T(15) + 1, T(70)}
Precips == {Null, FltV(0), FltV(5), FltV(T(1)), FltV(T(5))}
Clouds == {0, T(30), T(30) + 1, T(60), T(60) + 1, T(90)}
Latitudes == {52, -35}
Months == {1, 4, 7}

InitScore ==
    /\ \E t \in Temps, h \in Hums, w \in Winds, p \in Precips, c \in Clouds :
        sargs = [temperature |-> FltV(t), humidity |-> FltV(h),
                 wind_speed |-> FltV(w), precipitation |-> p,
                 cloud_cover |-> FltV(c)]
    /\ \E lat \in Latitudes, m \in Months : sctx = [latitude |-> lat, month |-> m]
    /\ slocals = <<>>
    /\ sres = NotRun
    /\ CleanIdle /\ FetchIdle /\ CycleIdle /\ RankIdle /\ UiIdle

Score ==
    /\ sres.st = "notrun"
    /\ sres' = calculate_comfort_index(sargs.temperature, sargs.humidity,
                   sargs.wind_speed, sargs.precipitation, sargs.cloud_cover)
    /\ slocals' = ComfortLocals(sargs.temperature, sargs.humidity,
                      sargs.wind_speed, sargs.precipitation, sargs.cloud_cover)
    /\ UNCHANGED <<sargs, sctx, cleanVars, fetchVars, cycleVars, rankVars, uiVars>>

NextScore == Score

SpecScore == InitScore /\ [][NextScore]_vars

(***************************************************************************)
(* calculate_city_comfort_index, the sorting of the ranking and the        *)
(* analysis part of main (weatherDataAnalyst.py, 305-356).  A mean is the  *)
(* exact quotient num/den of sum(scores) / len(scores).                    *)
(***************************************************************************)
\* bound: cities in the loaded aggregate (the program has 15)
MaxRankCities == 6
\* the slice bound of `[:5]`
TopN == 5

\* `x or 0` with the value passed on as it is
OrZeroKeep(x) == x
\* `x or 0`: None and a zero number are falsy
OrZero(x) == IF IsNone(x) \/ (IsNumber(x) /\ x.v = 0) THEN IntV(0) ELSE x

\* the call of calculate_comfort_index made for one cleaned row
RowScore(row) ==
    calculate_comfort_index(row.temperature_2m, row.relative_humidity_2m,
                            OrZero(row.wind_speed_10m),
                            OrZero(row.precipitation),
                            OrZero(row.cloud_cover))

RECURSIVE SumSeq(_)
SumSeq(s) == IF Len(s) = 0 THEN 0 ELSE s[1] + SumSeq(Tail(s))

Ratio(num, den) == [num |-> num, den |-> den]
\* comparisons of two means
Lt(a, b) == a.num * b.den < b.num * a.den
Eq(a, b) == a.num * b.den = b.num * a.den

\* the hour of day of a time stamp
HourOf(t) == t.v % 24
SelectRows(rows, keep) ==
    LET F[i \in 0..Len(rows)] ==
            IF i = 0 THEN <<>>
            ELSE IF i \in keep THEN Append(F[i - 1], rows[i]) ELSE F[i - 1]
    IN  F[Len(rows)]

\* the list `scores` built by the loop over the given rows
ScoresOf(rows) == [j \in 1..Len(rows) |-> RowScore(rows[j])]

\* the mean taken over the rows whose hour of day is in 7..22 only
calculate_city_comfort_index_daytime(cleaned_rows) ==
    LET day == SelectRows(cleaned_rows,
                   {i \in 1..Len(cleaned_rows) :
                        HourOf(cleaned_rows[i].time) \in 7..22})
        scores == ScoresOf(day)
    IN  IF Len(day) = 0 THEN [st |-> "returned", value |-> Ratio(0, 1),
                              exc |-> "none", scores |-> <<>>]
        ELSE IF \E j \in 1..Len(day) : scores[j].st = "raised"
        THEN [st |-> "raised", value |-> <<>>, exc |-> "TypeError",
              scores |-> <<>>]
        ELSE LET vals == [j \in 1..Len(day) |-> scores[j].value]
             IN  [st |-> "returned", value |-> Ratio(SumSeq(vals), Len(vals)),
                  exc |-> "none", scores |-> vals]

\* the return written as `return sum(scores)`, without the division
calculate_city_comfort_index_sum(cleaned_rows) ==
    LET scores == ScoresOf(cleaned_rows)
        vals == [j \in 1..Len(cleaned_rows) |-> scores[j].value]
    IN  IF Len(cleaned_rows) = 0
        THEN [st |-> "returned", value |-> Ratio(0, 1), exc |-> "none",
              scores |-> <<>>]
        ELSE [st |-> "returned", value |-> Ratio(SumSeq(vals), 1),
              exc |-> "none", scores |-> vals]

\* calculate_city_comfort_index: 0 without rows, else sum(scores)/len(scores);
\* the field scores is the local list at the return
calculate_city_comfort_index(cleaned_rows) ==
    LET scores == ScoresOf(cleaned_rows)
    IN  IF Len(cleaned_rows) = 0
        THEN [st |-> "returned", value |-> Ratio(0, 1), exc |-> "none",
              scores |-> <<>>]
        ELSE IF \E j \in 1..Len(cleaned_rows) : scores[j].st = "raised"
        THEN [st |-> "raised", value |-> <<>>, exc |-> "TypeError",
              scores |-> <<>>]
        ELSE LET vals == [j \in 1..Len(cleaned_rows) |-> scores[j].value]
             IN  [st |-> "returned", value |-> Ratio(SumSeq(vals), Len(vals)),
                  exc |-> "none", scores |-> vals]

\* `comfort_scores[city_name] = comfort_index` on a dict kept in insertion
\* order: a known key keeps its place and takes the new value
DictSet(d, key, val) ==
    IF \E i \in 1..Len(d) : d[i].key = key
    THEN [i \in 1..Len(d) |->
             IF d[i].key = key THEN [key |-> key, val |-> val] ELSE d[i]]
    ELSE Append(d, [key |-> key, val |-> val])

\* one insertion that puts x before the items equal to it
InsertDescBeforeTies(s, x) ==
    LET k == Cardinality({i \in 1..Len(s) : Lt(x.val, s[i].val)})
    IN  SubSeq(s, 1, k) \o <<x>> \o SubSeq(s, k + 1, Len(s))

\* one insertion of the stable descending sort: x goes behind every item
\* that is greater than or equal to it
InsertDesc(s, x) ==
    LET k == Cardinality({i \in 1..Len(s) : ~Lt(s[i].val, x.val)})
    IN  SubSeq(s, 1, k) \o <<x>> \o SubSeq(s, k + 1, Len(s))

\* sorted(items, key=lambda x: x[1], reverse=True)
RECURSIVE sorted_reverse(_)
sorted_reverse(items) ==
    IF Len(items) = 0 THEN <<>>
    ELSE InsertDesc(sorted_reverse(SubSeq(items, 1, Len(items) - 1)),
                    items[Len(items)])

\* the slice s[-n:]
TakeLast(s, n) == SubSeq(s, Len(s) - Min2(n, Len(s)) + 1, Len(s))
\* the slice s[:n]
Take(s, n) == SubSeq(s, 1, Min2(n, Len(s)))

(***************************************************************************)
(* SpecRank: the analysis of main on the aggregate it has just loaded.     *)
(* A city's payload holds two hours of the window, 03:00 and 12:00.        *)
(***************************************************************************)
RankTimes == <<StrV(3), StrV(12)>>
\* every reading ideal at both hours
IdealDoc ==
    RawPayload(RankTimes, <<FltV(T(20)), FltV(T(20))>>,
               <<IntV(T(50)), IntV(T(50))>>, <<FltV(0), FltV(0)>>,
               <<FltV(T(5)), FltV(T(5))>>, <<IntV(T(10)), IntV(T(10))>>)
\* a cold night hour, an ideal midday hour
ColdNightDoc ==
    RawPayload(RankTimes, <<FltV(T(2)), FltV(T(20))>>,
               <<IntV(T(50)), IntV(T(50))>>, <<FltV(0), FltV(0)>>,
               <<FltV(T(5)), FltV(T(5))>>, <<IntV(T(10)), IntV(T(10))>>)
\* a cool midday hour whose precipitation, wind and cloud cover are null
NullsDoc ==
    RawPayload(RankTimes, <<FltV(T(20)), FltV(T(16))>>,
               <<IntV(T(50)), IntV(T(50))>>, <<FltV(0), Null>>,
               <<FltV(T(5)), Null>>, <<IntV(T(10)), Null>>)
\* a payload without the `hourly` object
NoHourlyDoc == [latitude |-> 52]
RankDocs == {IdealDoc, ColdNightDoc, NullsDoc, NoHourlyDoc}

\* the aggregate main wrote before loading it, cities named in list order
AggregateOf(docs) ==
    [capitals_weather |-> [i \in 1..Len(docs) |-> WithMetadata(docs[i], i)]]
\* a file of the same folder that lacks the root key capitals_weather
OtherAggregate == [capitals_weather_cleaned |-> <<>>]

NoFile == [st |-> "absent", data |-> <<>>]
RankStart ==
    [pc |-> "load", exc |-> "none", cleaned_data |-> <<>>,
     cleaned_file |-> NoFile, scores |-> <<>>, comfort_scores |-> <<>>,
     top_5 |-> <<>>, sorted_data |-> <<>>]

InitRank ==
    /\ \/ \E n \in 0..MaxRankCities : \E docs \in [1..n -> RankDocs] :
              rin = AggregateOf(docs)
       \/ rin = OtherAggregate
    /\ rres = RankStart
    /\ CleanIdle /\ FetchIdle /\ CycleIdle /\ ScoreIdle /\ UiIdle

\* lines 305-328: load, clean every city, save the cleaned aggregate
CleanAll ==
    /\ rres.pc = "load"
    /\ LET capitals_list == Get(rin, "capitals_weather", <<>>)
           outs == [i \in 1..Len(capitals_list) |->
                       clean_hourly_data(capitals_list[i])]
           new == [i \in 1..Len(capitals_list) |->
                      [metadata |-> Get(capitals_list[i], "metadata",
                                        [key \in {} |-> <<>>]),
                       cleaned_hourly_rows |-> outs[i].value]]
       IN  IF \E i \in 1..Len(capitals_list) : outs[i].st = "raised"
           THEN rres' = [rres EXCEPT !.pc = "raised", !.exc = "ValueError"]
           ELSE rres' = [rres EXCEPT
                            !.pc = "rank",
                            !.cleaned_data = new,
                            !.cleaned_file =
                                Full([capitals_weather_cleaned |-> new])]
    /\ UNCHANGED <<rin, cleanVars, fetchVars, cycleVars, scoreVars, uiVars>>

\* the loop of lines 339-347 over cleaned_data, from record i with the
\* dict d and the lists of scores sc built so far
RECURSIVE ComfortLoop(_, _, _, _)
ComfortLoop(cd, i, d, sc) ==
    IF i > Len(cd) THEN [st |-> "returned", d |-> d, sc |-> sc]
    ELSE LET meta == Get(cd[i], "metadata", [key \in {} |-> <<>>])
             city_name == Get(meta, "city", 0)  \* 0 is "Unknown"
             cleaned_rows == Get(cd[i], "cleaned_hourly_rows", <<>>)
             comfort_index == calculate_city_comfort_index(cleaned_rows)
         IN  IF comfort_index.st = "raised"
             THEN [st |-> "raised", d |-> d, sc |-> sc]
             ELSE ComfortLoop(cd, i + 1,
                              DictSet(d, city_name, comfort_index.value),
                              Append(sc, comfort_index.scores))

\* lines 337-356: the comfort index of every city, the top 5 and the
\* sorted ranking of plot_comfort_ranking
RankAll ==
    /\ rres.pc = "rank"
    /\ LET loop == ComfortLoop(rres.cleaned_data, 1, <<>>, <<>>)
       IN  IF loop.st = "raised"
           THEN rres' = [rres EXCEPT !.pc = "raised", !.exc = "TypeError"]
           ELSE rres' = [rres EXCEPT
                            !.pc = "done",
                            !.scores = loop.sc,
                            !.comfort_scores = loop.d,
                            !.top_5 = Take(sorted_reverse(loop.d), TopN),
                            !.sorted_data = sorted_reverse(loop.d)]
    /\ UNCHANGED <<rin, cleanVars, fetchVars, cycleVars, scoreVars, uiVars>>

NextRank == CleanAll \/ RankAll

SpecRank == InitRank /\ [][NextRank]_vars

(***************************************************************************)
(* SpecIndex: both index functions, each on its own inputs: either one     *)
(* call of calculate_comfort_index or one analysis of an aggregate.        *)
(***************************************************************************)
InitIndex == InitScore \/ InitRank

NextIndex ==
    \/ DOMAIN rin = {} /\ NextScore
    \/ DOMAIN sargs = {} /\ NextRank

SpecIndex == InitIndex /\ [][NextIndex]_vars

(***************************************************************************)
(* The download handling of WeatherDashboard (dashboard.py).               *)
(*                                                                         *)
(* on_download_data runs either on the Tk main thread, as the command of   *)
(* the download button, or on the thread that auto_download_data starts    *)
(* when the callback of root.after(500, ...) fires.  One step per          *)
(* statement that another invocation can observe:                          *)
(*   enter   -> update   download_btn.config(state="disabled")   (284)     *)
(*   update  -> run      root.update()                           (285)     *)
(*   run     -> ran      subprocess.run(..., timeout=120) ends   (289-295) *)
(*   ran     -> box      messagebox.showinfo / showerror         (297-327) *)
(*   box     -> finally  the box is closed, the views reloaded   (298-320) *)
(*   finally -> left     download_btn.config(state="normal")     (329)     *)
(* A Tk call made on the other thread is carried out by the main thread    *)
(* when that thread processes events.                                      *)
(***************************************************************************)
MaxClicks == 2

Invokers == {"main", "thread"}
RunOutcomes == {"success", "failed", "timeout", "error"}

Handler(x) == IF x = "main" THEN tkmain ELSE thread
Left(x) == IF x = "main" THEN "mainloop" ELSE "dead"
At(pc, out) == [pc |-> pc, out |-> out]

\* the main thread dispatches events: in mainloop, in root.update(), and in
\* the modal loop of a message box
EventLoop == tkmain.pc \in {"mainloop", "update", "box"}
TkReady(x) == x = "main" \/ EventLoop

Move(x, h) ==
    IF x = "main" THEN tkmain' = h /\ thread' = thread
    ELSE thread' = h /\ tkmain' = tkmain

InitDash ==
    /\ after_500 = "pending"
    /\ download_btn = "normal"
    /\ tkmain = At("mainloop", "none")
    /\ thread = At("none", "none")
    /\ clicks = 0
    /\ boxes = <<>>
    /\ CleanIdle /\ FetchIdle /\ CycleIdle /\ ScoreIdle /\ RankIdle

\* the callback of root.after(500, ...): a thread running on_download_data
auto_download_data ==
    /\ after_500 = "pending"
    /\ EventLoop
    /\ after_500' = "fired"
    /\ thread' = At("enter", "none")
    /\ UNCHANGED <<download_btn, tkmain, clicks, boxes>>

\* a click on the enabled button: on_download_data on the main thread
Click ==
    /\ tkmain.pc = "mainloop"
    /\ download_btn = "normal"
    /\ thread.pc # "box"
    /\ clicks < MaxClicks
    /\ clicks' = clicks + 1
    /\ tkmain' = At("enter", "none")
    /\ UNCHANGED <<after_500, download_btn, thread, boxes>>

Disable(x) ==
    /\ Handler(x).pc = "enter"
    /\ TkReady(x)
    /\ download_btn' = "disabled"
    /\ Move(x, At("update", "none"))
    /\ UNCHANGED <<after_500, clicks, boxes>>

Update(x) ==
    /\ Handler(x).pc = "update"
    /\ TkReady(x)
    /\ Move(x, At("run", "none"))
    /\ UNCHANGED <<after_500, download_btn, clicks, boxes>>

RunEnds(x, o) ==
    /\ Handler(x).pc = "run"
    /\ Move(x, At("ran", o))
    /\ UNCHANGED <<after_500, download_btn, clicks, boxes>>

ShowBox(x) ==
    /\ Handler(x).pc = "ran"
    /\ TkReady(x)
    /\ boxes' = Append(boxes, Handler(x).out)
    /\ Move(x, At("box", Handler(x).out))
    /\ UNCHANGED <<after_500, download_btn, clicks>>

CloseBox(x) ==
    /\ Handler(x).pc = "box"
    /\ Move(x, At("finally", Handler(x).out))
    /\ UNCHANGED <<after_500, download_btn, clicks, boxes>>

Enable(x) ==
    /\ Handler(x).pc = "finally"
    /\ TkReady(x)
    /\ download_btn' = "normal"
    /\ Move(x, At(Left(x), Handler(x).out))
    /\ UNCHANGED <<after_500, clicks, boxes>>

on_download_data(x) ==
    \/ Disable(x)
    \/ Update(x)
    \/ \E o \in RunOutcomes : RunEnds(x, o)
    \/ ShowBox(x)
    \/ CloseBox(x)
    \/ Enable(x)

NextDash ==
    \/ auto_download_data /\ UNCHANGED <<cleanVars, fetchVars, cycleVars, scoreVars, rankVars>>
    \/ Click /\ UNCHANGED <<cleanVars, fetchVars, cycleVars, scoreVars, rankVars>>
    \/ \E x \in Invokers : Disable(x) /\ UNCHANGED <<cleanVars, fetchVars, cycleVars, scoreVars, rankVars>>
    \/ \E x \in Invokers : Update(x) /\ UNCHANGED <<cleanVars, fetchVars, cycleVars, scoreVars, rankVars>>
    \/ \E x \in Invokers, o \in RunOutcomes : RunEnds(x, o) /\ UNCHANGED <<cleanVars, fetchVars, cycleVars, scoreVars, rankVars>>
    \/ \E x \in Invokers : ShowBox(x) /\ UNCHANGED <<cleanVars, fetchVars, cycleVars, scoreVars, rankVars>>
    \/ \E x \in Invokers : CloseBox(x) /\ UNCHANGED <<cleanVars, fetchVars, cycleVars, scoreVars, rankVars>>
    \/ \E x \in Invokers : Enable(x) /\ UNCHANGED <<cleanVars, fetchVars, cycleVars, scoreVars, rankVars>>

SpecDash == InitDash /\ [][NextDash]_vars

(***************************************************************************)
(* C3: the fetcher re-issues the HTTP request only after a transport       *)
(* failure or a response with status 429, 500, 502, 503 or 504, and sends  *)
(* at most 4 requests in one fetch; any other HTTP error status fails the  *)
(* fetch without another request.                                          *)
(***************************************************************************)
C3_RetryPolicy ==
    [][fnreq' > fnreq =>
          /\ fnreq' <= 1 + RetryTotal
          /\ fnreq > 0 => IsRetryable(flast)]_vars

(***************************************************************************)
(* C4: a finished fetch either returned the body of a non-error response,  *)
(* unchanged, or raised; it never returns after an error status or after   *)
(* exhausted retries, and a raised fetch hands back no payload.            *)
(***************************************************************************)
C4_ReturnsBodyOrRaises ==
    fpc = "done" =>
        \/ /\ fout.st = "returned"
           /\ flast.status \in 200..399
           /\ flast.body.json
           /\ fout.value = flast.body.doc
           /\ fout.value \in ApiDocs(1)
        \/ /\ fout.st = "raised"
           /\ fout.value = <<>>
           /\ \/ IsRetryable(flast)
              \/ flast.status >= 400
              \/ ~flast.body.json

\* a fetch that returned the body of its last response after the retries of
\* its first session.get were used up
C4_Witness ==
    /\ fpc = "done"
    /\ fout.st = "returned"
    /\ fnreq = 5
    /\ fout.value = GapsDoc(1)

(***************************************************************************)
(* C5: a fetch called with a forecast-day count outside [1,16] is rejected *)
(* before any network request is issued.                                   *)
(***************************************************************************)
C5_BadDaysRejected ==
    fdays \notin 1..16 => fnreq = 0

(***************************************************************************)
(* Vocabulary of the claims about a refresh cycle.                         *)
(***************************************************************************)
\* the cities whose unit failed, and those whose unit succeeded
Failed == {c \in CAPITALS : unit[c].pc = "done" /\ unit[c].out.st = "raised"}
Succeeded == {c \in CAPITALS : unit[c].pc = "done" /\ unit[c].out.st = "returned"}
\* the cities of an aggregate, and whether each occurs once
CitiesIn(entries) == {entries[i]["metadata"].city : i \in 1..Len(entries)}
EachOnce(entries) == Cardinality(CitiesIn(entries)) = Len(entries)
\* both aggregate files are as a complete earlier cycle wrote them
AggregatesAsBefore ==
    \E doc \in OldDocs :
        /\ raw_file = OldRawFile(doc)
        /\ cleaned_file = OldCleanedFile(doc)

(***************************************************************************)
(* C1: fault isolation.  Whatever set F of cities has a failed unit, the   *)
(* refresh call returns normally (no exception escapes main), and when it  *)
(* has returned the all-raw and the all-cleaned aggregate each hold        *)
(* exactly the cities of CAPITALS minus F, each once.                      *)
(***************************************************************************)
C1_FaultIsolation ==
    /\ mainpc # "raised"
    /\ mainpc = "done" =>
        /\ raw_file.st = "full" /\ cleaned_file.st = "full"
        /\ CitiesIn(raw_file.data) = CAPITALS \ Failed
        /\ CitiesIn(cleaned_file.data) = CAPITALS \ Failed
        /\ EachOnce(raw_file.data) /\ EachOnce(cleaned_file.data)

\* main has returned after the fetches of two cities failed with their
\* retries used up; the aggregates hold the one other city
C1_Witness ==
    /\ mainpc = "done"
    /\ Cardinality(Failed) = 2
    /\ \A c \in Failed : unit[c].out.exc = "RetryError"
    /\ Len(raw_file.data) = 1 /\ Len(cleaned_file.data) = 1

(***************************************************************************)
(* C2: a refresh cycle surfaces a per-city failure list to its caller: it  *)
(* names every city whose unit failed and no city whose unit succeeded.    *)
(* What the cycle surfaces is the lines it prints; main returns None.      *)
(***************************************************************************)
\* the cities the printed lines name (a line without a city names none)
NamedIn(lines) == {Get(lines[i], "city", 0) : i \in 1..Len(lines)} \ {0}

C2_FailureListNamesFailed ==
    mainpc = "done" => NamedIn(stdout) = Failed

(***************************************************************************)
(* C6: if every city's unit fails, the stored all-raw and all-cleaned      *)
(* aggregates are left as the previous cycle wrote them.                   *)
(***************************************************************************)
C6_TotalFailureKeepsOld ==
    (mainpc = "done" /\ Failed = CAPITALS) => AggregatesAsBefore

(***************************************************************************)
(* C7: a refresh cycle cut off by the wall-clock budget is reported as     *)
(* failed and leaves both stored aggregates exactly as the previous        *)
(* complete cycle wrote them (never one new and one old, never truncated). *)
(***************************************************************************)
C7_TimeoutKeepsAggregates ==
    mainpc = "killed" => (dash = "timeout" /\ AggregatesAsBefore)

(***************************************************************************)
(* C8: after a refresh cycle has committed its aggregates, each aggregate  *)
(* holds only cities fetched successfully in this cycle, with this cycle's *)
(* data; no entry of the earlier aggregate survives.                       *)
(***************************************************************************)
C8_FullReplacement ==
    mainpc = "done" =>
        /\ \A i \in 1..Len(raw_file.data) :
            LET e == raw_file.data[i]
            IN  /\ e["metadata"].city \in Succeeded
                /\ e = unit[e["metadata"].city].out.value.raw
                /\ \A doc \in OldDocs, c \in CAPITALS : e # OldRaw(doc, c)
        /\ \A i \in 1..Len(cleaned_file.data) :
            LET e == cleaned_file.data[i]
            IN  /\ e["metadata"].city \in Succeeded
                /\ e = unit[e["metadata"].city].out.value.cleaned
                /\ \A j \in 1..Len(e.cleaned_hourly_rows) :
                       e.cleaned_hourly_rows[j].time \notin
                           {TimesOf(0, 3)[k] : k \in 1..3}

\* a committed cycle in which one city failed: the aggregates hold a strict,
\* non-empty subset of the cities the earlier aggregate held
C8_Witness ==
    /\ mainpc = "done"
    /\ Cardinality(Failed) = 1
    /\ Len(raw_file.data) = NumCities - 1
    /\ Len(cleaned_file.data) = NumCities - 1

(***************************************************************************)
(* C10: every cleaned observation row of every aggregate, stored or being  *)
(* assembled, has a non-null temperature and a non-null humidity.          *)
(***************************************************************************)
RowsComplete(entries) ==
    \A i \in 1..Len(entries) :
        \A j \in 1..Len(entries[i].cleaned_hourly_rows) :
            LET row == entries[i].cleaned_hourly_rows[j]
            IN  ~IsNone(row.temperature_2m) /\ ~IsNone(row.relative_humidity_2m)

C10_CleanedRowsComplete ==
    /\ RowsComplete(cleaned_data)
    /\ RowsComplete(cleaned_file.data)

\* a committed aggregate with a city whose payload had an hour without
\* temperature (dropped) and an hour without precipitation (kept)
C10_Witness ==
    /\ mainpc = "done"
    /\ \E i \in 1..Len(cleaned_file.data) :
        /\ unit[cleaned_file.data[i]["metadata"].city].raw["hourly"]
               = GapsDoc(1)["hourly"]
        /\ Len(cleaned_file.data[i].cleaned_hourly_rows) = 1
        /\ IsNone(cleaned_file.data[i].cleaned_hourly_rows[1].precipitation)

(***************************************************************************)
(* C9: clean_hourly_data equals the reference operator: with L the least   *)
(* length of the six hourly sequences, the output is, in source order, one *)
(* row for each index up to L whose temperature and humidity are both      *)
(* non-null; so its length is L minus the number of such indices with a    *)
(* null temperature or humidity, and the rows keep chronological order.    *)
(***************************************************************************)
RefLens(data) == {Len(data.hourly[key]) : key \in HourlyKeys}
RefL(data) == CHOOSE m \in RefLens(data) : \A n \in RefLens(data) : m <= n
RefDropped(data) ==
    {i \in 1..RefL(data) :
        \/ data.hourly["temperature_2m"][i] = Null
        \/ data.hourly["relative_humidity_2m"][i] = Null}
RefKept(data) == (1..RefL(data)) \ RefDropped(data)
\* the j-th kept index, counting from the earliest hour
RefIndex(data, j) ==
    CHOOSE i \in RefKept(data) :
        Cardinality({k \in RefKept(data) : k < i}) = j - 1

C9_CleanEqualsReference ==
    cout # NotRun =>
        /\ cout.st = "returned"
        /\ Len(cout.value) = RefL(cdata) - Cardinality(RefDropped(cdata))
        /\ \A j \in 1..Len(cout.value) :
            LET i == RefIndex(cdata, j)
                row == cout.value[j]
            IN  /\ row.time = cdata.hourly["time"][i]
                /\ row.temperature_2m.v = cdata.hourly["temperature_2m"][i].v
                /\ row.relative_humidity_2m.v =
                       cdata.hourly["relative_humidity_2m"][i].v
                /\ row.precipitation.v = cdata.hourly["precipitation"][i].v
                /\ row.wind_speed_10m.v = cdata.hourly["wind_speed_10m"][i].v
                /\ row.cloud_cover.v = cdata.hourly["cloud_cover"][i].v

\* ragged input (the time sequence is longer than L = 2), the first hour
\* dropped for a null temperature or humidity, the second hour kept
C9_Witness ==
    /\ cout.st = "returned"
    /\ RefL(cdata) = 2
    /\ Len(cdata.hourly["time"]) = 3
    /\ RefDropped(cdata) = {1}
    /\ Len(cout.value) = 1
    /\ cout.value[1].time = StrV(12)

(***************************************************************************)
(* C11: cleaning keeps missing optional values as null.  Every source hour *)
(* within the usable length that has a temperature and a humidity is       *)
(* retained whatever its precipitation, wind speed and cloud cover; in the *)
(* cleaned row an optional field is null exactly when the source value is  *)
(* null (never 0 in its place), and a non-null value keeps its number.     *)
(***************************************************************************)
OptionalKeys == {"precipitation", "wind_speed_10m", "cloud_cover"}

C11_OptionalNullsKept ==
    cout.st = "returned" =>
        /\ \A i \in RefKept(cdata) :
            \E j \in 1..Len(cout.value) :
                cout.value[j].time = cdata.hourly["time"][i]
        /\ \A j \in 1..Len(cout.value) :
            \A key \in OptionalKeys :
                LET src == cdata.hourly[key][RefIndex(cdata, j)]
                    val == cout.value[j][key]
                IN  /\ IsNone(src) => val = Null
                    /\ ~IsNone(src) => (val.k = "float" /\ val.v = src.v)

\* a retained hour whose precipitation is null in the source and in the
\* cleaned row, next to a wind speed that is present in both
C11_Witness ==
    /\ cout.st = "returned"
    /\ Len(cout.value) >= 1
    /\ IsNone(cdata.hourly["precipitation"][RefIndex(cdata, 1)])
    /\ cout.value[1].precipitation = Null
    /\ cout.value[1].wind_speed_10m = FltV(7)

(***************************************************************************)
(* Vocabulary of the claims about the comfort index.                       *)
(***************************************************************************)
ScoreDone == sres.st = "returned"
Dist(a, b) == IF a >= b THEN a - b ELSE b - a

NorthWinter == {12, 1, 2}
NorthSummer == {6, 7, 8}
IsWinter(lat, m) == IF lat >= 0 THEN m \in NorthWinter ELSE m \in NorthSummer
IsSummer(lat, m) == IF lat >= 0 THEN m \in NorthSummer ELSE m \in NorthWinter
SeasonOptimum(lat, m) ==
    IF IsWinter(lat, m) THEN T(10)
    ELSE IF IsSummer(lat, m) THEN T(22) ELSE T(15)
SeasonTolerance(lat, m) == IF IsWinter(lat, m) THEN T(8) ELSE T(10)

RankDone == rres.pc = "done"
LoadedCities == Get(rin, "capitals_weather", <<>>)
MissingStructure ==
    \/ "capitals_weather" \notin DOMAIN rin
    \/ \E i \in 1..Len(LoadedCities) : "hourly" \notin DOMAIN LoadedCities[i]
RowsOfCity(i) == rres.cleaned_data[i].cleaned_hourly_rows
MeanOfCity(i) == rres.comfort_scores[i].val
RECURSIVE SumOn(_, _)
SumOn(s, S) ==
    IF S = {} THEN 0
    ELSE LET j == CHOOSE j \in S : TRUE IN s[j] + SumOn(s, S \ {j})
DaytimeRows(i) ==
    {j \in 1..Len(RowsOfCity(i)) : HourOf(RowsOfCity(i)[j].time) \in 7..22}
ZeroIfNull(x) == IF IsNone(x) THEN FltV(0) ELSE x

(***************************************************************************)
(* C12: input that lacks a required structural field (a city payload       *)
(* without `hourly`, an aggregate without its root key) makes the whole    *)
(* invocation fail with an error: once the analysis has moved past its     *)
(* start it has raised, and has written and computed nothing.              *)
(***************************************************************************)
C12_MissingStructureIsError ==
    (MissingStructure /\ rres.pc # "load") =>
        /\ rres.pc = "raised"
        /\ rres.cleaned_file.st = "absent"
        /\ Len(rres.comfort_scores) = 0

C17_NullScoredAsZero ==
    /\ rres.exc # "TypeError"
    /\ RankDone =>
        \A i \in 1..Len(rres.cleaned_data) :
            \A j \in 1..Len(RowsOfCity(i)) :
                LET row == RowsOfCity(i)[j]
                    ref == calculate_comfort_index(
                               row.temperature_2m, row.relative_humidity_2m,
                               ZeroIfNull(row.wind_speed_10m),
                               ZeroIfNull(row.precipitation),
                               ZeroIfNull(row.cloud_cover))
                IN  ref.st = "returned" /\ rres.scores[i][j] = ref.value

C17_Witness ==
    /\ RankDone
    /\ Len(rres.cleaned_data) >= 1
    /\ Len(RowsOfCity(1)) = 2
    /\ RowsOfCity(1)[2].wind_speed_10m = Null
    /\ RowsOfCity(1)[2].precipitation = Null
    /\ RowsOfCity(1)[2].cloud_cover = Null
    /\ rres.scores[1][2] = 90

(***************************************************************************)
(* C18: the overall ranking lists every city of the aggregate once, in     *)
(* descending order of mean comfort index, its position being its rank     *)
(* 1..N; cities with equal means keep their input order.                   *)
(***************************************************************************)
C18_StableDescendingRanking ==
    RankDone =>
        LET r == rres.sorted_data
            n == Len(LoadedCities)
        IN  /\ Len(r) = n
            /\ \A i \in 1..n :
                   \E p \in 1..n :
                       /\ r[p].key = LoadedCities[i].metadata.city
                       /\ r[p].val = MeanOfCity(i)
                       /\ \A q \in 1..n : r[q].key = r[p].key => q = p
            /\ \A p, q \in 1..n :
                   p < q =>
                       /\ ~Lt(r[p].val, r[q].val)
                       /\ Eq(r[p].val, r[q].val) => r[p].key < r[q].key

C18_Witness ==
    /\ RankDone
    /\ Len(rres.sorted_data) = 3
    /\ rres.sorted_data[1].key = 2
    /\ rres.sorted_data[2].key = 3
    /\ rres.sorted_data[3].key = 1
    /\ Eq(rres.sorted_data[1].val, rres.sorted_data[2].val)
    /\ Lt(rres.sorted_data[3].val, rres.sorted_data[2].val)

C20_BarrierBeforeAggregates ==
    [][(raw_file' # raw_file \/ cleaned_file' # cleaned_file) =>
          /\ \A c \in CAPITALS : unit[c].pc = "done"
          /\ taken = CAPITALS]_vars

C20_Witness ==
    /\ mainpc = "dump_raw"
    /\ raw_file = Truncated
    /\ \A c \in CAPITALS : unit[c].pc = "done"
    /\ \E c \in CAPITALS : unit[c].out.st = "raised"
    /\ \E c \in CAPITALS : unit[c].out.st = "returned"

(***************************************************************************)
(* C21: no shared mutable state across the concurrent city units.  In      *)
(* every step of every interleaving, a per-city file that changes is the   *)
(* file of the one unit that moves in that step, no other unit that is     *)
(* saving targets that path, no two cities have the same output path, and  *)
(* the lists all_data and cleaned_data change only in steps of main, in    *)
(* which no unit moves.                                                    *)
(***************************************************************************)
C21_UnitsShareNothing ==
    [][/\ \A c, d \in CAPITALS : c # d => safe_city(c) # safe_city(d)
       /\ \A p \in DOMAIN city_file :
              city_file'[p].st # city_file[p].st =>
                  \E c \in CAPITALS :
                      /\ safe_city(c) = p
                      /\ unit[c].pc \in {"save", "dump"}
                      /\ unit'[c].pc # unit[c].pc
                      /\ \A d \in CAPITALS \ {c} :
                             /\ unit'[d] = unit[d]
                             /\ unit[d].pc \in {"save", "dump"}
                                    => safe_city(d) # p
       /\ (all_data' # all_data \/ cleaned_data' # cleaned_data) =>
              /\ mainpc = "collect"
              /\ \A c \in CAPITALS : unit'[c].pc = unit[c].pc]_vars

C21_Witness ==
    /\ unit[1].pc = "dump"
    /\ unit[2].pc = "dump"
    /\ city_file[safe_city(1)] = Truncated
    /\ city_file[safe_city(2)] = Truncated
    /\ mainpc = "collect"

(***************************************************************************)
(* C22: calculate_comfort_index returns, for every numeric input, a whole  *)
(* number of points between 0 and 100, the sum of factor points with       *)
(* maxima 25, 25, 20, 15, 15 (temperature, humidity, wind, precipitation,  *)
(* cloud); calculate_city_comfort_index returns a value in [0,100] for     *)
(* every list of rows, and 0 for the empty list.                           *)
(***************************************************************************)
C22_IndexRanges ==
    /\ (DOMAIN sargs # {} /\ ScoreDone) =>
           /\ sres.value \in 0..100
           /\ slocals.temp_score <= 25 /\ slocals.humidity_score <= 25
           /\ slocals.wind_score <= 20 /\ slocals.precip_score <= 15
           /\ slocals.cloud_score <= 15
           /\ sres.value = slocals.score
    /\ (DOMAIN rin # {} /\ RankDone) =>
           \A i \in 1..Len(rres.cleaned_data) :
               /\ \A j \in 1..Len(rres.scores[i]) :
                      rres.scores[i][j] \in 0..100
               /\ MeanOfCity(i).den > 0
               /\ 0 <= MeanOfCity(i).num
               /\ MeanOfCity(i).num <= 100 * MeanOfCity(i).den
               /\ Len(RowsOfCity(i)) = 0 => MeanOfCity(i).num = 0

C22_Witness ==
    /\ DOMAIN rin # {}
    /\ RankDone
    /\ Len(rres.cleaned_data) = 2
    /\ Len(RowsOfCity(1)) = 0
    /\ MeanOfCity(1) = Ratio(0, 1)
    /\ MeanOfCity(2) = Ratio(200, 2)

(***************************************************************************)
(* C23: the city entries of the all-raw and of the all-cleaned aggregate   *)
(* stand in the order of the configured city list, whatever the order in   *)
(* which the concurrent fetches complete.                                  *)
(***************************************************************************)
InListOrder(entries) ==
    \A i, j \in 1..Len(entries) :
        i < j => entries[i]["metadata"].city < entries[j]["metadata"].city

C23_ConfiguredOrder ==
    mainpc = "done" =>
        /\ InListOrder(raw_file.data)
        /\ InListOrder(cleaned_file.data)

(***************************************************************************)
(* C24: a city unit is all-or-nothing towards its persisted output.  A     *)
(* city whose unit has failed, at whatever step, has its per-city file as  *)
(* the earlier cycle left it; and once the cycle has returned, every       *)
(* per-city file it wrote belongs to a city of its aggregates.             *)
(***************************************************************************)
FileAsBefore(c) ==
    /\ city_file[safe_city(c)].st = "full"
    /\ \E doc \in OldDocs : city_file[safe_city(c)].data = OldRaw(doc, c)

C24_UnitAllOrNothing ==
    /\ \A c \in Failed : FileAsBefore(c)
    /\ mainpc = "done" =>
           \A c \in CAPITALS :
               ~FileAsBefore(c) => c \in CitiesIn(raw_file.data)

(***************************************************************************)
(* C25: a refresh cycle terminates.  A fetch sends at most 2 * (1 + 3)     *)
(* requests and in the end has returned or raised; a cycle in the end has  *)
(* every unit done and main returned with both aggregates holding its      *)
(* lists, for good; and each aggregate is written once: the all-raw file   *)
(* does not change after its write, nor the all-cleaned file after its.    *)
(***************************************************************************)
FetchOver == fpc = "done" /\ fout.st # "notrun"
CycleOver ==
    /\ mainpc = "done"
    /\ \A c \in CAPITALS : unit[c].pc = "done"
    /\ raw_file = Full(all_data)
    /\ cleaned_file = Full(cleaned_data)

C25_CycleTerminates ==
    /\ [](fnreq <= 2 * (RetryTotal + 1))
    /\ <>[](FetchOver \/ CycleOver)
    /\ [][/\ mainpc \in {"save_cleaned", "dump_cleaned", "done"}
              => raw_file' = raw_file
          /\ mainpc = "done" => cleaned_file' = cleaned_file]_vars

C25_Witness ==
    /\ mainpc = "done"
    /\ dash = "success"
    /\ Failed # {}
    /\ Succeeded # {}
    /\ raw_file = Full(all_data)
    /\ cleaned_file = Full(cleaned_data)

\* ---- vocabulary of the dashboard claim
Running(x) == Handler(x).pc = "run"
Active(x) == Handler(x).pc \notin {"mainloop", "none", "dead"}

\* C26: at most one collector run started by the dashboard is in progress at
\* any time, whatever the interleaving of the start-up download with the
\* clicks; the button is disabled while a run is in progress, and it is
\* enabled once every invocation of the handler has ended.
C26_OneRunAtATime ==
    /\ ~(Running("main") /\ Running("thread"))
    /\ (\E x \in Invokers : Running(x)) => download_btn = "disabled"
    /\ (\A x \in Invokers : ~Active(x)) => download_btn = "normal"

====
